---- MODULE Spec2Model ----
(***************************************************************************)
(* Model of snlaf/pars: the HTTP and FTP ingestion programs                *)
(* (Parser_Arc/http.go, Parser_Arc/ftp.go) that extract signatures from    *)
(* rule archives and upsert them into the PostgreSQL table `signatures`,   *)
(* and the export program (Parser_Arc/export.go) that renders the live     *)
(* rows into text artifacts.                                               *)
(*                                                                         *)
(* Text is modelled by TLA+ strings; a rendered line is the sequence of    *)
(* the text fragments fmt.Sprintf concatenates, an artifact the sequence   *)
(* of the fragments of all its lines.  A nullable text column is a         *)
(* sql.NullString record; a nullable timestamp is <<>> (NULL) or <<t>>.    *)
(***************************************************************************)
EXTENDS Integers, Sequences, FiniteSets, TLC

VARIABLES
    store,      \* the rows of table signatures
    nextId,     \* next value of the SERIAL sequence behind column id
    now,        \* CURRENT_TIMESTAMP of the next statement
    calls,      \* number of saveToDB calls issued so far
    last,       \* the most recent saveToDB call: caller, argument, table before and after, outcome
    exp,        \* the exportSignatures call in progress, or the last one returned
    files,      \* the file system: output path -> [exists, data]
    ing         \* the ingestion run (main -> processArchive -> parseFile) in progress

vars == <<store, nextId, now, calls, last, exp, files, ing>>

----------------------------------------------------------------------------
(* Bounds of the model. *)

\* saveToDB calls in a behaviour of Spec.
MaxCalls == 3
\* saveToDB calls that fill the store before the exports of SpecExport.
MaxIngested == 2
\* Members of the archive of SpecArchive.
MaxMembers == 2

----------------------------------------------------------------------------
(* SQL values. *)

Text(s) == [Valid |-> TRUE, String |-> s]
NullText == [Valid |-> FALSE, String |-> ""]
NullTime == <<>>
Time(t) == <<t>>

\* SQL's a != b: true only when both sides are non-NULL and differ.
SqlNe(a, b) == a.Valid /\ b.Valid /\ a.String # b.String
\* SQL's a = b as the unique index on sid applies it: NULLs never conflict.
SqlEq(a, b) == a.Valid /\ b.Valid /\ a.String = b.String

----------------------------------------------------------------------------
(* The Signature struct of the ingestion programs. *)

Signature(type, proto, srcIP, srcPort, dstIP, dstPort, sid, msg, filename) ==
    [Type |-> type, Proto |-> proto, SrcIP |-> srcIP, SrcPort |-> srcPort,
     DstIP |-> dstIP, DstPort |-> dstPort, SID |-> sid, Msg |-> msg,
     Filename |-> filename]

TrackedColumns ==
    {"type", "proto", "src_ip", "src_port", "dst_ip", "dst_port", "msg", "filename"}

\* The EXCLUDED pseudo-row of the INSERT: the values bound to $1..$9.
Excluded(sig) ==
    [type |-> Text(sig.Type), proto |-> Text(sig.Proto), src_ip |-> Text(sig.SrcIP),
     src_port |-> Text(sig.SrcPort), dst_ip |-> Text(sig.DstIP),
     dst_port |-> Text(sig.DstPort), sid |-> Text(sig.SID), msg |-> Text(sig.Msg),
     filename |-> Text(sig.Filename)]

\* The row INSERT builds: id from the sequence, created_at by its default,
\* updated_at = CURRENT_TIMESTAMP, deleted_at by its default NULL.
NewRow(sig, id, t) ==
    [id |-> id, type |-> Text(sig.Type), proto |-> Text(sig.Proto),
     src_ip |-> Text(sig.SrcIP), src_port |-> Text(sig.SrcPort),
     dst_ip |-> Text(sig.DstIP), dst_port |-> Text(sig.DstPort),
     sid |-> Text(sig.SID), msg |-> Text(sig.Msg), filename |-> Text(sig.Filename),
     created_at |-> Time(t), updated_at |-> Time(t), deleted_at |-> NullTime]

\* sid TEXT UNIQUE: the rows the new row conflicts with.
ConflictRows(s, sig) == {r \in s : SqlEq(r.sid, Text(sig.SID))}

\* The WHERE clause of DO UPDATE.
RowDiffersAlways(r, sig) == TRUE

RowDiffers(r, sig) ==
    /\ SqlEq(r.sid, Excluded(sig).sid)
    /\ \E c \in TrackedColumns : SqlNe(r[c], Excluded(sig)[c])

\* The SET list of DO UPDATE.
UpdateRowKeepMissing(r, sig, t) ==
    [c \in DOMAIN r |->
        IF c \in TrackedColumns
        THEN (IF Excluded(sig)[c].String = "" THEN r[c] ELSE Excluded(sig)[c])
        ELSE IF c = "updated_at" THEN Time(t) ELSE r[c]]

UpdateRowRevive(r, sig, t) ==
    [c \in DOMAIN r |->
        IF c \in TrackedColumns THEN Excluded(sig)[c]
        ELSE IF c = "updated_at" THEN Time(t)
        ELSE IF c = "deleted_at" THEN NullTime ELSE r[c]]

UpdateRow(r, sig, t) ==
    [c \in DOMAIN r |->
        IF c \in TrackedColumns THEN Excluded(sig)[c]
        ELSE IF c = "updated_at" THEN Time(t) ELSE r[c]]

\* INSERT ... ON CONFLICT (sid) DO UPDATE SET ... WHERE ...: the table after
\* the statement.
UpsertNoArbiter(s, sig, id, t) == s \cup {NewRow(sig, id, t)}

Upsert(s, sig, id, t) ==
    IF ConflictRows(s, sig) = {}
    THEN s \cup {NewRow(sig, id, t)}
    ELSE {IF r \in ConflictRows(s, sig) /\ RowDiffers(r, sig)
          THEN UpdateRow(r, sig, t) ELSE r : r \in s}

\* Rows the statement inserted or updated (the sql.Result saveToDB discards).
RowsAffected(s, sig) ==
    IF ConflictRows(s, sig) = {} THEN 1
    ELSE Cardinality({r \in ConflictRows(s, sig) : RowDiffers(r, sig)})

----------------------------------------------------------------------------
(* strings.Index, strings.Contains and the slice expressions of Go. *)

\* strings.Index(s, sub): the zero-based offset of the first occurrence, or -1.
Index(s, sub) ==
    LET hits == {i \in 0..(Len(s) - Len(sub)) : SubSeq(s, i + 1, i + Len(sub)) = sub}
    IN  IF hits = {} THEN -1 ELSE CHOOSE i \in hits : \A j \in hits : i <= j

Contains(s, sub) == Index(s, sub) >= 0

\* s[lo:hi]
Slice(s, lo, hi) == SubSeq(s, lo + 1, hi)

----------------------------------------------------------------------------
(* The grammars of parseFile.  A rule is the record of the tokens a match  *)
(* of the program's regular expression consists of; Submatch is the        *)
(* element FindAllStringSubmatch returns for it (match[i] of the Go code   *)
(* is m[i + 1] here).                                                      *)

\* alert (\w+) (\[.*?\]|\S+) any -> (\[.*?\]|\S+) any .*?msg:"(.*?)";.*?sid:(\d+);
HttpSubmatch(rule) ==
    << "alert " \o rule.proto \o " " \o rule.src \o " any -> " \o rule.dst
          \o " any (msg:\"" \o rule.msg \o "\"; sid:" \o rule.sid \o ";",
       rule.proto, rule.src, rule.dst, rule.msg, rule.sid >>

\* alert (\w+) (\S+) (\S+) -> (\S+) (\S+).*?sid:(\d+);
FtpSubmatch(rule) ==
    << "alert " \o rule.proto \o " " \o rule.src \o " " \o rule.sport \o " -> "
          \o rule.dst \o " " \o rule.dport \o " (sid:" \o rule.sid \o ";",
       rule.proto, rule.src, rule.sport, rule.dst, rule.dport, rule.sid >>

StripIpListKeepBracket(msg) ==
    IF Contains(msg, "ip [")
    THEN LET start == Index(msg, "ip [")
             end == Index(Slice(msg, start, Len(msg)), "]") + start
         IN  Slice(msg, 0, start) \o Slice(msg, end, Len(msg))
    ELSE msg

\* The removal of the first "ip [...]" fragment from the message.
StripIpList(msg) ==
    IF Contains(msg, "ip [")
    THEN LET start == Index(msg, "ip [")
             end == Index(Slice(msg, start, Len(msg)), "]") + start + 1
         IN  Slice(msg, 0, start) \o Slice(msg, end, Len(msg))
    ELSE msg

\* The Signature the HTTP program's parseFile builds from a match.
HttpSignature(m, filename) ==
    Signature(m[2], m[3], m[4], "", m[5], "", m[6], StripIpList(m[5]), filename)

\* The Signature the FTP program's parseFile builds from a match.
FtpSignature(m, filename) ==
    Signature(m[2], m[3], m[4], m[5], m[6], m[7], m[7], "", filename)

----------------------------------------------------------------------------
(* Inputs. *)

Filenames == {"a.rules"}

HttpRules ==
    [proto : {"tcp"}, src : {"10.0.0.1"}, dst : {"10.0.0.2"},
     msg : {"test rule", "scan ip [1.1.1.1] seen"}, sid : {"1001", "1002"}]

FtpRules ==
    [proto : {"tcp"}, src : {"10.0.0.1"}, sport : {"1024"}, dst : {"10.0.0.2"},
     dport : {"80"}, sid : {"1001", "1002"}]

WideHttpRules ==
    [proto : {"tcp", "http"}, src : {"$EXTERNAL_NET", "[10.0.0.1,10.0.0.3]"},
     dst : {"$HOME_NET", "10.0.0.2"},
     msg : {"", "test rule", "scan ip [1.1.1.1] seen", "ip [unclosed",
            "a]b ip [x] ip [y]"},
     sid : {"1001", "1002"}]

WideFtpRules ==
    [proto : {"tcp", "ftp"}, src : {"$EXTERNAL_NET", "10.0.0.1"},
     sport : {"any", "1024"}, dst : {"$HOME_NET", "10.0.0.2"},
     dport : {"21", "80"}, sid : {"1001", "1002"}]

\* A record without identity, which only a direct caller of saveToDB can pass
\* (both grammars require \d+ for the sid).
MalformedSignatures ==
    {Signature("tcp", "10.0.0.1", "10.0.0.2", "", "", "", "", "test rule", "a.rules")}

Formats == {"suricata", "dionis", "xml"}
Supported == {"suricata", "dionis"}

OutputFile(format) == "export_" \o format \o ".txt"
OutputFiles == {OutputFile(f) : f \in Formats}

----------------------------------------------------------------------------
(* saveToDB (identical in http.go and ftp.go): one db.Exec of the upsert   *)
(* statement.  ok = FALSE is a storage failure: the statement did not run. *)
(* Statements run one after the other, each at a later instant.            *)

NoCall ==
    [caller |-> "none", sig |-> Signature("", "", "", "", "", "", "", "", ""),
     before |-> {}, after |-> {}, at |-> 0, err |-> FALSE, affected |-> 0,
     again |-> FALSE]

\* The call repeats the record of the call before it, which succeeded.
Repeats(sig) == last.caller # "none" /\ ~last.err /\ last.sig = sig

saveToDB(caller, sig, ok) ==
    /\ calls' = calls + 1
    /\ now' = now + 1
    /\ IF ok
       THEN /\ store' = Upsert(store, sig, nextId, now)
            /\ nextId' = nextId + 1
            /\ last' = [caller |-> caller, sig |-> sig, before |-> store,
                        after |-> Upsert(store, sig, nextId, now), at |-> now,
                        err |-> FALSE, affected |-> RowsAffected(store, sig),
                        again |-> Repeats(sig)]
       ELSE /\ UNCHANGED <<store, nextId>>
            /\ last' = [caller |-> caller, sig |-> sig, before |-> store,
                        after |-> store, at |-> now, err |-> TRUE, affected |-> 0,
                        again |-> Repeats(sig)]
    /\ UNCHANGED <<exp, files>>

\* One iteration of the loop over the matches in the HTTP program's parseFile.
HttpParseMatch ==
    \E rule \in HttpRules, filename \in Filenames, ok \in BOOLEAN :
        /\ calls < MaxCalls
        /\ saveToDB("http", HttpSignature(HttpSubmatch(rule), filename), ok)
        /\ UNCHANGED ing

\* One iteration of the loop over the matches in the FTP program's parseFile.
FtpParseMatch ==
    \E rule \in FtpRules, filename \in Filenames, ok \in BOOLEAN :
        /\ calls < MaxCalls
        /\ saveToDB("ftp", FtpSignature(FtpSubmatch(rule), filename), ok)
        /\ UNCHANGED ing

\* A call of saveToDB with a record that has no identity.
SaveMalformed ==
    \E sig \in MalformedSignatures :
        /\ calls < MaxCalls
        /\ saveToDB("direct", sig, TRUE)
        /\ UNCHANGED ing

\* The administrative action that marks a row deleted.
SoftDelete ==
    \E r \in store :
        /\ exp.result = "none"
        /\ r.deleted_at = NullTime
        /\ store' = (store \ {r}) \cup {[r EXCEPT !.deleted_at = Time(now)]}
        /\ now' = now + 1
        /\ UNCHANGED <<nextId, calls, last, exp, files, ing>>

----------------------------------------------------------------------------
(* exportSignatures (export.go).  Its single SELECT reads one snapshot of  *)
(* the table, so the model runs it against a store at rest.                *)

NoFile == [exists |-> FALSE, data |-> <<>>]
File(data) == [exists |-> TRUE, data |-> data]

\* WHERE deleted_at IS NULL
LiveRowsAll(s) == s

LiveRows(s) == {r \in s : r.deleted_at = NullTime}

\* SELECT type, proto, src_ip, dst_ip, sid, msg, filename
SelectColumns(r) ==
    [type |-> r.type, proto |-> r.proto, src_ip |-> r.src_ip, dst_ip |-> r.dst_ip,
     sid |-> r.sid, msg |-> r.msg, filename |-> r.filename]

\* db.Query: the result set.
Query(s) == {SelectColumns(r) : r \in LiveRows(s)}

\* rows.Scan into five strings and two sql.NullString: NULL does not convert
\* to string.
ScanFails(row) ==
    \E c \in {"type", "proto", "src_ip", "dst_ip", "sid"} : ~row[c].Valid

\* The handling of the nullable fields.
OrDefault(ns) == IF ns.Valid THEN ns.String ELSE "N/A"

\* The export program's Signature, filled by Scan and the NULL handling.
Scanned(row) ==
    [Type |-> row.type.String, Proto |-> row.proto.String, SrcIP |-> row.src_ip.String,
     DstIP |-> row.dst_ip.String, SID |-> row.sid.String,
     Msg |-> OrDefault(row.msg), Filename |-> OrDefault(row.filename)]

\* The two fmt.Sprintf calls, as the sequence of the fragments they concatenate.
SuricataLine(sig) ==
    << "\nalert ", sig.Type, " ", sig.Proto, " ", sig.SrcIP, " -> ", sig.DstIP,
       " any (msg:\"", sig.Msg, "\"; sid:", sig.SID, ";);" >>

DionisLine(sig) ==
    << "\ntype:", sig.Type, ";proto:", sig.Proto, ";src_ip:", sig.SrcIP,
       ";dst_ip:", sig.DstIP, ";sid:", sig.SID, ";msg:", sig.Msg,
       ";filename:", sig.Filename, ";" >>

RenderLine(format, sig) ==
    IF format = "suricata" THEN SuricataLine(sig) ELSE DionisLine(sig)

\* strings.Join(outputData, "")
RECURSIVE Join(_)
Join(lines) == IF lines = <<>> THEN <<>> ELSE Head(lines) \o Join(Tail(lines))

Idle ==
    [pc |-> "idle", format |-> "suricata", path |-> OutputFile("suricata"),
     cursor |-> {}, outputData |-> <<>>, result |-> "none", queried |-> FALSE,
     snap |-> {}, fileBefore |-> NoFile]

\* The return of exportSignatures with an error.
Failed(kind) == [exp EXCEPT !.pc = "idle", !.result = kind]

\* Entry of exportSignatures up to the return of db.Query.
ExportQuery ==
    \E format \in Formats, ok \in BOOLEAN :
        /\ exp.pc = "idle"
        /\ exp' = [pc |-> IF ok THEN "rows" ELSE "idle",
                   format |-> format, path |-> OutputFile(format),
                   cursor |-> IF ok THEN Query(store) ELSE {},
                   outputData |-> <<>>,
                   result |-> IF ok THEN "running" ELSE "query",
                   queried |-> TRUE, snap |-> store,
                   fileBefore |-> files[OutputFile(format)]]
        /\ UNCHANGED <<store, nextId, now, calls, last, files, ing>>

\* The part of the loop body after a successful Scan: the NULL handling and
\* the switch on the format.
ExportRowStreaming(row) ==
    IF exp.format \in Supported
    THEN /\ exp' = [exp EXCEPT !.cursor = exp.cursor \ {row},
                               !.outputData = Append(exp.outputData,
                                                     RenderLine(exp.format, Scanned(row)))]
         /\ files' = [files EXCEPT ![exp.path] =
                         File(Join(Append(exp.outputData,
                                          RenderLine(exp.format, Scanned(row)))))]
    ELSE /\ exp' = Failed("format")
         /\ UNCHANGED files

ExportRow(row) ==
    IF exp.format \in Supported
    THEN /\ exp' = [exp EXCEPT !.cursor = exp.cursor \ {row},
                               !.outputData = Append(exp.outputData,
                                                     RenderLine(exp.format, Scanned(row)))]
         /\ UNCHANGED files
    ELSE /\ exp' = Failed("format")
         /\ UNCHANGED files

\* One iteration of the loop: rows.Next() is true, then rows.Scan and the
\* rest of the body.  ok = FALSE is a failure of Scan reported by the driver.
ExportNext ==
    \E row \in exp.cursor, ok \in BOOLEAN :
        /\ exp.pc = "rows"
        /\ IF ok /\ ~ScanFails(row)
           THEN ExportRow(row)
           ELSE exp' = Failed("scan") /\ UNCHANGED files
        /\ UNCHANGED <<store, nextId, now, calls, last, ing>>

\* rows.Next() is false because the iteration failed: rows.Err() is not nil.
ExportRowsErr ==
    /\ exp.pc = "rows"
    /\ exp' = Failed("rows")
    /\ UNCHANGED <<store, nextId, now, calls, last, files, ing>>

\* rows.Next() is false at the end of the result set; os.WriteFile succeeds.
ExportWrite ==
    /\ exp.pc = "rows"
    /\ exp.cursor = {}
    /\ files' = [files EXCEPT ![exp.path] = File(Join(exp.outputData))]
    /\ exp' = [exp EXCEPT !.pc = "idle", !.result = "ok"]
    /\ UNCHANGED <<store, nextId, now, calls, last, ing>>

\* os.WriteFile fails: at open (the file is as before) or after truncation,
\* having written the first k lines.
ExportWriteFails ==
    /\ exp.pc = "rows"
    /\ exp.cursor = {}
    /\ \/ UNCHANGED files
       \/ \E k \in 0..Len(exp.outputData) :
            files' = [files EXCEPT ![exp.path] =
                         File(Join(SubSeq(exp.outputData, 1, k)))]
    /\ exp' = Failed("write")
    /\ UNCHANGED <<store, nextId, now, calls, last, ing>>

\* An upsert of either ingestion program before the exports.
Ingest ==
    /\ exp.result = "none"
    /\ calls < MaxIngested
    /\ \/ \E rule \in HttpRules, filename \in Filenames :
            saveToDB("http", HttpSignature(HttpSubmatch(rule), filename), TRUE)
       \/ \E rule \in FtpRules, filename \in Filenames :
            saveToDB("ftp", FtpSignature(FtpSubmatch(rule), filename), TRUE)
    /\ UNCHANGED ing

----------------------------------------------------------------------------
(* An ingestion run: main -> processArchive -> parseFile -> saveToDB, for  *)
(* one source, and the same run once more over the same archive.           *)

MemberNames == {"a.rules", "b.rules"}

\* The rules the members of the archive are made of.
ArchiveRules(prog) ==
    IF prog = "http" THEN {r \in HttpRules : r.msg = "scan ip [1.1.1.1] seen"}
    ELSE FtpRules

\* The matches of a member: none, one, or two of different rules.
Contents(rules) ==
    {<<>>} \cup {<<a>> : a \in rules}
           \cup {<<p[1], p[2]>> : p \in {q \in rules \X rules : q[1] # q[2]}}

\* The entries of a tar stream: regular files, a directory, and the place
\* where the stream is damaged.
Members(prog) ==
    [kind : {"reg"}, name : MemberNames, rules : Contents(ArchiveRules(prog))]
        \cup {[kind |-> "dir", name |-> "rules", rules |-> <<>>],
              [kind |-> "corrupt", name |-> "", rules |-> <<>>]}

RECURSIVE SeqsUpTo(_, _)
SeqsUpTo(S, n) ==
    IF n = 0 THEN {<<>>}
    ELSE SeqsUpTo(S, n - 1)
            \cup {Append(q, x) : q \in {p \in SeqsUpTo(S, n - 1) : Len(p) = n - 1}, x \in S}

Archives(prog) == SeqsUpTo(Members(prog), MaxMembers)

\* The Signature parseFile of the program builds from a rule of a member.
SignatureOf(prog, rule, filename) ==
    IF prog = "http" THEN HttpSignature(HttpSubmatch(rule), filename)
    ELSE FtpSignature(FtpSubmatch(rule), filename)

\* main calls processArchive: os.Open, gzip.NewReader, tar.NewReader.
\* ok = FALSE: the archive cannot be opened and processArchive returns the error.
StartRun ==
    \E ok \in BOOLEAN :
        /\ ing.pc \in {"start", "done"}
        /\ ing.run < 2
        /\ ing' = [ing EXCEPT !.pc = IF ok THEN "loop" ELSE "done",
                              !.run = ing.run + 1, !.m = 1, !.k = 1, !.saved = 0,
                              !.failed = IF ok THEN ing.failed
                                         ELSE ing.failed \cup {ing.run + 1}]
        /\ UNCHANGED <<store, nextId, now, calls, last, exp, files>>

\* tarReader.Next() and the body of the loop of processArchive up to the
\* loop over the matches in parseFile.  The error of a damaged stream is
\* sticky: the reader does not advance and Next() returns the error again
\* on every later call.
TarNext ==
    /\ ing.pc = "loop"
    /\ IF ing.m > Len(ing.archive)
       THEN ing' = [ing EXCEPT !.pc = "done"]
       ELSE LET member == ing.archive[ing.m] IN
            CASE member.kind = "corrupt" ->
                    ing' = [ing EXCEPT !.pc = "readerr", !.spinning = TRUE]
              [] member.kind = "dir" -> ing' = [ing EXCEPT !.m = ing.m + 1]
              [] member.kind = "reg" /\ member.rules = <<>> ->
                    ing' = [ing EXCEPT !.m = ing.m + 1]
              [] OTHER -> ing' = [ing EXCEPT !.pc = "matches", !.k = 1]
    /\ UNCHANGED <<store, nextId, now, calls, last, exp, files>>

\* The branch err != nil of the loop of processArchive: the error is logged
\* and continue starts the next iteration, which calls Next() again.
TarReadError ==
    /\ ing.pc = "readerr"
    /\ ing' = [ing EXCEPT !.pc = "loop"]
    /\ UNCHANGED <<store, nextId, now, calls, last, exp, files>>

\* One iteration of the loop over the matches in parseFile; after the last
\* match parseFile returns to the loop of processArchive.  ok = FALSE is a
\* storage failure of the upsert, of which a run meets at most one.
ParseMatch ==
    \E ok \in BOOLEAN :
        LET member == ing.archive[ing.m] IN
        /\ ing.pc = "matches"
        /\ ok \/ ing.run \notin ing.failed
        /\ saveToDB(ing.prog, SignatureOf(ing.prog, member.rules[ing.k], member.name), ok)
        /\ ing' = [ing EXCEPT
                      !.pc = IF ing.k = Len(member.rules) THEN "loop" ELSE "matches",
                      !.m = IF ing.k = Len(member.rules) THEN ing.m + 1 ELSE ing.m,
                      !.k = IF ing.k = Len(member.rules) THEN 1 ELSE ing.k + 1,
                      !.saved = ing.saved + 1,
                      !.failed = IF ok THEN ing.failed ELSE ing.failed \cup {ing.run}]

----------------------------------------------------------------------------
(* Specifications. *)

NoRun == [pc |-> "none"]

Init ==
    /\ store = {}
    /\ nextId = 1
    /\ now = 1
    /\ calls = 0
    /\ last = NoCall
    /\ exp = Idle
    /\ files = [p \in OutputFiles |-> NoFile]
    /\ ing = NoRun

\* The store under the upserts of the two ingestion programs and the
\* administrative soft delete.
Next ==
    \/ HttpParseMatch
    \/ FtpParseMatch
    \/ SaveMalformed
    \/ SoftDelete

Spec == Init /\ [][Next]_vars

\* The export program against a store the ingestion programs have filled.
NextExport ==
    \/ Ingest
    \/ SoftDelete
    \/ ExportQuery
    \/ ExportNext
    \/ ExportRowsErr
    \/ ExportWrite
    \/ ExportWriteFails

SpecExport == Init /\ [][NextExport]_vars

\* An ingestion program run twice over one archive, from an empty table.
InitArchive ==
    /\ store = {}
    /\ nextId = 1
    /\ now = 1
    /\ calls = 0
    /\ last = NoCall
    /\ exp = Idle
    /\ files = [p \in OutputFiles |-> NoFile]
    /\ \E prog \in {"http", "ftp"} :
         \E archive \in Archives(prog) :
            ing = [pc |-> "start", prog |-> prog, archive |-> archive, run |-> 0,
                   m |-> 1, k |-> 1, saved |-> 0, failed |-> {}, spinning |-> FALSE]

NextArchive ==
    \/ StartRun
    \/ TarNext
    \/ TarReadError
    \/ ParseMatch

SpecArchive == InitArchive /\ [][NextArchive]_vars

\* An ingestion program run over an archive of one file with one rule, the
\* rule drawn from every combination of tokens.
ParseArchives(prog) ==
    {<<[kind |-> "reg", name |-> n, rules |-> <<r>>]>> :
        n \in MemberNames,
        r \in IF prog = "http" THEN WideHttpRules ELSE WideFtpRules}

InitParse ==
    /\ store = {}
    /\ nextId = 1
    /\ now = 1
    /\ calls = 0
    /\ last = NoCall
    /\ exp = Idle
    /\ files = [p \in OutputFiles |-> NoFile]
    /\ \E prog \in {"http", "ftp"} :
         \E archive \in ParseArchives(prog) :
            ing = [pc |-> "start", prog |-> prog, archive |-> archive, run |-> 0,
                   m |-> 1, k |-> 1, saved |-> 0, failed |-> {}, spinning |-> FALSE]

NextParse ==
    \/ StartRun
    \/ TarNext
    \/ ParseMatch

SpecParse == InitParse /\ [][NextParse]_vars

\* The same runs of a process that is never suspended for ever: while a
\* statement of main, processArchive or parseFile is next, it is executed.
SpecArchiveLive == SpecArchive /\ WF_vars(NextArchive)

----------------------------------------------------------------------------
(* Properties of saveToDB, stated for Spec. *)

Called == last.caller # "none"
Executed == Called /\ ~last.err

\* The rows of table s that carry identity sid.
RowsOf(s, sid) == {r \in s : r.sid = Text(sid)}

\* The row of table s with primary key id.
RowById(s, id) == CHOOSE r \in s : r.id = id

\* C1: a call of saveToDB that repeats the record of the call before it (with
\* a non-empty identity) changes no column of any row, updated_at included,
\* and affects no row; a call for an identity the table does not hold adds
\* exactly one row, the one of that identity, created at the time of the call.
C1_IdempotentUpsert ==
    /\ (Executed /\ last.again /\ last.sig.SID # "") =>
          /\ last.after = last.before
          /\ last.affected = 0
    /\ (Executed /\ last.sig.SID # "" /\ RowsOf(last.before, last.sig.SID) = {}) =>
          /\ last.affected = 1
          /\ \E r \in last.after :
                /\ r \notin last.before
                /\ r.sid = Text(last.sig.SID)
                /\ r.created_at = Time(last.at)
                /\ last.after = last.before \cup {r}

\* Witness of C1: the same record was saved twice in a row, the second call at
\* a later instant than the row's last write.
C1_Witness ==
    /\ Executed /\ last.again /\ last.sig.SID # ""
    /\ \E r \in RowsOf(last.after, last.sig.SID) : r.updated_at # Time(last.at)

\* The stored row r and the record sig differ in a tracked attribute.
DiffersFrom(r, sig) == \E c \in TrackedColumns : r[c] # Excluded(sig)[c]

\* C2: when saveToDB runs for an identity that exists and whose row differs
\* from the record in a tracked attribute, then afterwards every tracked
\* attribute of the row is the record's value (an empty value included) and
\* updated_at is the time of the call; whichever program wrote the row before.
C2_FullRowOverwrite ==
    Executed =>
        \A r \in RowsOf(last.before, last.sig.SID) :
            DiffersFrom(r, last.sig) =>
                /\ \E q \in last.after : q.id = r.id
                /\ \A c \in TrackedColumns :
                      RowById(last.after, r.id)[c] = Excluded(last.sig)[c]
                /\ RowById(last.after, r.id).updated_at = Time(last.at)
                /\ last.affected = 1

\* Witness of C2: the FTP program's record, which has no message, replaced a
\* row that the HTTP program wrote with a message.
C2_Witness ==
    /\ Executed /\ last.caller = "ftp" /\ last.sig.Msg = ""
    /\ \E r \in RowsOf(last.before, last.sig.SID) :
          /\ r.msg.String # "" /\ r.src_port.String = ""
          /\ RowById(last.after, r.id).msg.String = ""

\* C3 (as claimed): a call of saveToDB with an empty identity returns an error
\* and leaves the table as it was.
C3_EmptyIdentityRejected ==
    (Called /\ last.sig.SID = "") => (last.err /\ last.after = last.before)

\* C9: the table never holds two rows of one identity, and an upsert for an
\* identity that exists adds no row.
C9_IdentityUnique ==
    /\ \A r1, r2 \in store : r1.sid = r2.sid => r1 = r2
    /\ (Executed /\ RowsOf(last.before, last.sig.SID) # {}) =>
          Cardinality(last.after) = Cardinality(last.before)

\* Witness of C9: both programs have upserted the identity of the last call,
\* and the table holds rows of two identities.
C9_Witness ==
    /\ Executed /\ last.caller = "ftp"
    /\ \E r \in RowsOf(last.before, last.sig.SID) : r.src_port.String = ""
    /\ \E r1, r2 \in store : r1.sid # r2.sid

\* C12: no saveToDB call, whatever its outcome, removes a row or changes the
\* id, sid, created_at or deleted_at of a row the table held; so a row that
\* was soft-deleted before the call is soft-deleted after it and is not in
\* the read view of the export, also when the call rewrote its attributes.
C12_UpsertFrame ==
    Called =>
        \A r \in last.before :
            /\ \E q \in last.after : q.id = r.id
            /\ RowById(last.after, r.id).sid = r.sid
            /\ RowById(last.after, r.id).created_at = r.created_at
            /\ RowById(last.after, r.id).deleted_at = r.deleted_at
            /\ r.deleted_at # NullTime =>
                  \A q \in Query(last.after) : q.sid # r.sid

\* Witness of C12: an upsert rewrote the tracked attributes of a soft-deleted row.
C12_Witness ==
    /\ Executed /\ last.affected = 1
    /\ \E r \in RowsOf(last.before, last.sig.SID) :
          /\ r.deleted_at # NullTime
          /\ RowById(last.after, r.id).updated_at = Time(last.at)
          /\ RowById(last.after, r.id).filename = r.filename
          /\ RowById(last.after, r.id).msg # r.msg


Returned == exp.pc = "idle" /\ exp.result # "none"

\* The artifact at the output path of the export.
Artifact == files[exp.path].data

\* The fragments of an artifact at which a line begins: every line the
\* program renders begins with a line break, and no stored value holds one
\* (parseFile replaces them by spaces).
LineStarts(data) ==
    {i \in DOMAIN data : Len(data[i]) > 0 /\ SubSeq(data[i], 1, 1) = "\n"}

\* The line that begins at fragment i.
LineAt(data, i) ==
    LET later == {j \in LineStarts(data) : j > i}
        stop == IF later = {} THEN Len(data) + 1
                ELSE CHOOSE j \in later : \A k \in later : j <= k
    IN  SubSeq(data, i, stop - 1)

\* The values a line gives after the fragment key.
ValuesAfter(line, key) ==
    {line[i + 1] : i \in {j \in 1..(Len(line) - 1) : line[j] = key}}

MsgKey(format) == IF format = "suricata" THEN " any (msg:\"" ELSE ";msg:"
SidKey(format) == IF format = "suricata" THEN "\"; sid:" ELSE ";sid:"

\* The live rows the export read.
Live == {r \in exp.snap : r.deleted_at = NullTime}
Deleted == {r \in exp.snap : r.deleted_at # NullTime}

\* C4 (as claimed): no line of an artifact has an empty message, and no
\* dionis line an empty file name: an empty value is rendered as N/A.
C4_SentinelForEmpty ==
    (exp.result = "ok" /\ exp.format \in Supported) =>
        \A i \in LineStarts(Artifact) :
            /\ "" \notin ValuesAfter(LineAt(Artifact, i), MsgKey(exp.format))
            /\ "" \notin ValuesAfter(LineAt(Artifact, i), ";filename:")

\* C5 (as claimed): an export in a format that is not supported issues no
\* query, returns the format error and leaves the output file as it was.
C5_UnsupportedFormatFailsFast ==
    exp.format \notin Supported =>
        /\ ~exp.queried
        /\ Returned => (exp.result = "format" /\ files[exp.path] = exp.fileBefore)

\* C6: the artifact of a successful export in a supported format has exactly
\* one line for every row whose deleted_at is NULL, that row's line, and no
\* line for a row whose deleted_at is set; the deleted rows are still stored.
C6_LiveRowsOnly ==
    (exp.result = "ok" /\ exp.format \in Supported) =>
        /\ files[exp.path].exists
        /\ \A r \in Live :
              /\ Cardinality({i \in LineStarts(Artifact) :
                    r.sid.String \in ValuesAfter(LineAt(Artifact, i), SidKey(exp.format))}) = 1
              /\ \E i \in LineStarts(Artifact) :
                    LineAt(Artifact, i) = RenderLine(exp.format, Scanned(SelectColumns(r)))
        /\ \A r \in Deleted :
              /\ \A i \in LineStarts(Artifact) :
                    r.sid.String \notin ValuesAfter(LineAt(Artifact, i), SidKey(exp.format))
              /\ r \in store
        /\ Cardinality(LineStarts(Artifact)) = Cardinality(Live)

\* Witness of C6: an export succeeded over a table with a live and a deleted row.
C6_Witness ==
    /\ exp.result = "ok" /\ exp.format \in Supported
    /\ Live # {} /\ Deleted # {}

\* C7: while exportSignatures iterates, and after it failed in the iteration
\* (Scan, rows.Err or the format error of the loop), the file at the output
\* path is what it was when the export began.
C7_ArtifactAtomic ==
    (exp.pc = "rows" \/ exp.result \in {"scan", "rows", "format"}) =>
        files[exp.path] = exp.fileBefore

\* Witness of C7: the iteration failed after a line was produced and before
\* the last row was read, with an earlier artifact at the output path.
C7_Witness ==
    /\ exp.result \in {"scan", "rows"}
    /\ exp.outputData # <<>> /\ exp.cursor # {}
    /\ exp.fileBefore.exists /\ exp.fileBefore.data # <<>>

\* The line gives value for the attribute named by key.
Carries(line, key, value) ==
    \E k \in {"\n" \o key \o ":", ";" \o key \o ":"} : value \in ValuesAfter(line, k)

\* A value as it is to be rendered: the placeholder for an empty one.
Shown(ns) == IF ns.Valid /\ ns.String # "" THEN ns.String ELSE "N/A"

\* C10 (as claimed): every line of a dionis artifact carries all nine
\* attributes of the row it renders.
C10_DionisFullAttributeSet ==
    (exp.result = "ok" /\ exp.format = "dionis") =>
        \A r \in Live :
            \E i \in LineStarts(Artifact) :
                LET line == LineAt(Artifact, i) IN
                /\ Carries(line, "sid", r.sid.String)
                /\ Carries(line, "type", r.type.String)
                /\ Carries(line, "proto", r.proto.String)
                /\ Carries(line, "src_ip", r.src_ip.String)
                /\ Carries(line, "dst_ip", r.dst_ip.String)
                /\ \E v \in {r.msg.String, Shown(r.msg)} : Carries(line, "msg", v)
                /\ \E v \in {r.filename.String, Shown(r.filename)} :
                      Carries(line, "filename", v)
                /\ Carries(line, "src_port", r.src_port.String)
                /\ Carries(line, "dst_port", r.dst_port.String)

----------------------------------------------------------------------------
(* Properties of processArchive, stated for SpecArchive. *)

\* The records parseFile extracts from the members of the archive.
Records ==
    UNION {{SignatureOf(ing.prog, ing.archive[m].rules[k], ing.archive[m].name) :
                k \in DOMAIN ing.archive[m].rules} : m \in DOMAIN ing.archive}

\* The records of one identity agree in every attribute.
OneRecordPerIdentity == \A s1, s2 \in Records : s1.SID = s2.SID => s1 = s2

\* The last saveToDB call belongs to the second run, and the first run
\* opened the archive and saved every record.
InSecondRun == ing.run = 2 /\ ing.saved > 0 /\ 1 \notin ing.failed

\* C8 (as claimed): every saveToDB of a second run over the same archive,
\* for any archive, affects no row and leaves the table as it was.
C8_ReingestionNoWrite ==
    InSecondRun => (last.affected = 0 /\ last.after = last.before)

\* C8 (amended): the same, for an archive whose records of one identity agree
\* in every tracked attribute.
C8_ReingestionNoWriteUniqueIdentities ==
    (InSecondRun /\ OneRecordPerIdentity) =>
        (last.affected = 0 /\ last.after = last.before)

\* Witness of C8: the second run came to its end over an archive with two
\* records, of two identities, and saved both again.
C8_Witness ==
    /\ InSecondRun /\ OneRecordPerIdentity
    /\ ing.pc = "done" /\ ing.saved = 2 /\ ~last.err
    /\ Cardinality(Records) = 2 /\ Cardinality(store) = 2

----------------------------------------------------------------------------
(* Properties of parseFile, stated for SpecParse. *)

\* The rule of the archive and the record parseFile has built from it.
Rule == ing.archive[1].rules[1]
Emitted == last.caller = ing.prog /\ last.sig.Filename = ing.archive[1].name

\* out is text without its first "ip [" fragment, up to the first "]" that
\* follows; text itself when it has no such fragment or no "]" follows.
At(text, i, sub) ==
    i + Len(sub) <= Len(text) /\ SubSeq(text, i + 1, i + Len(sub)) = sub
FirstAt(text, i, sub, from) ==
    i >= from /\ At(text, i, sub) /\ \A j \in from..(i - 1) : ~At(text, j, sub)
WithoutFirstIpList(text, out) ==
    \/ /\ \A i \in 0..Len(text) : ~At(text, i, "ip [")
       /\ out = text
    \/ \E i \in 0..Len(text) :
          /\ FirstAt(text, i, "ip [", 0)
          /\ \A j \in i..Len(text) : ~At(text, j, "]")
          /\ out = text
    \/ \E i, j \in 0..Len(text) :
          /\ FirstAt(text, i, "ip [", 0)
          /\ FirstAt(text, j, "]", i)
          /\ out = SubSeq(text, 1, i) \o SubSeq(text, j + 2, Len(text))

\* C11 (as claimed): a record of the HTTP grammar has SID equal to the sid
\* digits, Msg equal to the text of the msg clause, and empty SrcPort and
\* DstPort; a record of the FTP grammar has SID equal to the sid digits,
\* non-empty SrcPort and DstPort, and empty Msg.
C11_GrammarPartiality ==
    Emitted =>
        IF ing.prog = "http"
        THEN /\ last.sig.SID = Rule.sid
             /\ last.sig.Msg = Rule.msg
             /\ last.sig.SrcPort = "" /\ last.sig.DstPort = ""
        ELSE /\ last.sig.SID = Rule.sid
             /\ last.sig.SrcPort # "" /\ last.sig.DstPort # ""
             /\ last.sig.Msg = ""

\* C11 (amended): the same, with Msg of the HTTP grammar equal to the text of
\* the msg clause without its first "ip [...]" fragment.
C11_GrammarPartialityStripped ==
    Emitted =>
        IF ing.prog = "http"
        THEN /\ last.sig.SID = Rule.sid
             /\ WithoutFirstIpList(Rule.msg, last.sig.Msg)
             /\ last.sig.SrcPort = "" /\ last.sig.DstPort = ""
        ELSE /\ last.sig.SID = Rule.sid
             /\ last.sig.SrcPort # "" /\ last.sig.DstPort # ""
             /\ last.sig.Msg = ""

\* Witness of C11: parseFile stored a record of the HTTP grammar whose msg
\* clause held a fragment after another "]", and the fragment is gone.
C11_Witness ==
    /\ Emitted /\ ~last.err /\ ing.prog = "http"
    /\ Rule.msg = "a]b ip [x] ip [y]"
    /\ last.sig.Msg = "a]b  ip [y]"
    /\ \E r \in store : r.sid = Text(Rule.sid) /\ r.msg = Text(last.sig.Msg)

\* C13: every attribute of the record of a matched rule holds the token of
\* the same meaning: Proto the protocol token, SrcIP the source address
\* expression, DstIP the destination address expression and, in the FTP
\* grammar, SrcPort and DstPort the source and the destination port tokens.
C13_CaptureGroupBinding ==
    Emitted =>
        /\ last.sig.Proto = Rule.proto
        /\ last.sig.SrcIP = Rule.src
        /\ last.sig.DstIP = Rule.dst
        /\ ing.prog = "ftp" =>
              /\ last.sig.SrcPort = Rule.sport
              /\ last.sig.DstPort = Rule.dport

----------------------------------------------------------------------------
(* Termination of processArchive, stated for SpecArchiveLive. *)

\* C14: a run that has entered the loop of processArchive reaches the end of
\* the archive and processArchive returns, also when reading a member fails
\* with an error other than io.EOF or an upsert fails.
C14_IngestionTerminates == (ing.pc = "loop") ~> (ing.pc = "done")

====
